---- MODULE Spec2Model ----
(***************************************************************************)
(* Model of src/lambda_function.py: the S3 backup Lambda handler.          *)
(*                                                                         *)
(* One invocation of lambda_handler is a small sequential process whose    *)
(* position (pc) moves between the external calls it makes: the S3         *)
(* copy_object call and the SNS publish calls.  Several invocations may be *)
(* in flight at once; they share only the two collaborators, whose         *)
(* requests are recorded in s3Calls and snsCalls.                          *)
(*                                                                         *)
(* Python values: dicts are functions over strings, lists are sequences    *)
(* (Python index 0 is TLA+ index 1), None is the value None below.         *)
(* Clock readings (datetime.now) and the print/log lines are left out:     *)
(* they never influence control flow or the fields modelled here.          *)
(***************************************************************************)
EXTENDS Integers, Sequences, FiniteSets, TLC

\* Number of invocations the platform runs concurrently.
MaxInvocations == 2

\* Python's None.
None == "<None>"

\* "No exception is being raised".
NoExc == [type |-> "none", arg |-> ""]

\* ---------------------------------------------------------------------
\* Input domains
\* ---------------------------------------------------------------------
\* Values of the environment variables; None stands for "not set".
BackupBucketValues == {None, "", "dst"}
TopicArnValues == {None, "", "topic1"}

SourceBuckets == {"src", "src2"}
ObjectKeys == {"a.txt", "b.txt"}
Sizes == {0, 2048}
EventTimes == {"2024-01-01T00:00:00Z"}

\* Shapes of the incoming event: complete, or with one element missing.
EventShapes == {"full", "noRecords", "emptyRecords", "noS3", "noBucket",
                "noName", "noObject", "noKey", "noSize", "noEventTime"}

\* Behaviours of the collaborators: "ok" returns normally, anything else is
\* the type of the exception the call raises.  "NoMessageId" is a publish
\* that returns a response without the 'MessageId' entry.
CopyBehaviours == {"ok", "ClientError", "KeyError", "ValueError"}
PublishBehaviours == {"ok", "NoMessageId", "ClientError", "KeyError", "ValueError"}
FailurePublishBehaviours == {"ok", "ClientError"}

\* os.environ as a dict: a variable that is not set is not in the domain.
MkEnv(bb, ta) ==
    [k \in ({"BACKUP_BUCKET" : x \in {bb} \ {None}} \cup
            {"SNS_TOPIC_ARN" : x \in {ta} \ {None}}) |->
        IF k = "BACKUP_BUCKET" THEN bb ELSE ta]

\* The S3 event notification, as the nested dict/list structure the
\* platform delivers, with the element named by shape left out.
MkEvent(shape, b, k, n, t) ==
    LET bucket == IF shape = "noName" THEN [arn |-> "arn:aws:s3:::" \o b]
                  ELSE [name |-> b, arn |-> "arn:aws:s3:::" \o b]
        object == IF shape = "noKey" THEN [size |-> n, eTag |-> "e"]
                  ELSE IF shape = "noSize" THEN [key |-> k, eTag |-> "e"]
                  ELSE [key |-> k, size |-> n, eTag |-> "e"]
        s3 == IF shape = "noBucket" THEN [object |-> object, s3SchemaVersion |-> "1.0"]
              ELSE IF shape = "noObject" THEN [bucket |-> bucket, s3SchemaVersion |-> "1.0"]
              ELSE [bucket |-> bucket, object |-> object, s3SchemaVersion |-> "1.0"]
        record == IF shape = "noS3" THEN [eventTime |-> t, eventName |-> "ObjectCreated:Put"]
                  ELSE IF shape = "noEventTime" THEN [s3 |-> s3, eventName |-> "ObjectCreated:Put"]
                  ELSE [s3 |-> s3, eventTime |-> t, eventName |-> "ObjectCreated:Put"]
    IN  IF shape = "noRecords" THEN [detail |-> "x"]
        ELSE IF shape = "emptyRecords" THEN [Records |-> <<>>]
        ELSE [Records |-> <<record>>]

\* ---------------------------------------------------------------------
\* Python semantics used by the handler
\* ---------------------------------------------------------------------
\* os.environ.get(name): the value, or None when the variable is not set.
EnvGet(e, name) == IF name \in DOMAIN e THEN e[name] ELSE None

\* Truthiness of an optional string: None and "" are falsy.
Falsy(v) == v = None \/ v = ""

\* str(e): KeyError shows the repr of its argument, the others the argument.
Str(e) == IF e.type = "KeyError" THEN "'" \o e.arg \o "'" ELSE e.arg

\* isinstance(e, cls) for the classes the except clauses name.  Among the
\* exception types of the model none is a subclass of another one:
\* IndexError is a LookupError but not a KeyError.
IsInstance(e, cls) == cls = "Exception" \/ e.type = cls

\* Subscript chain v[p1][p2]...: a dict subscript with an absent key raises
\* KeyError(key), the list subscript "[0]" on an empty list IndexError.
RECURSIVE Subscript(_, _)
Subscript(v, path) ==
    IF path = <<>> THEN [exc |-> NoExc, val |-> v]
    ELSE IF Head(path) = "[0]"
         THEN IF Len(v) = 0
              THEN [exc |-> [type |-> "IndexError", arg |-> "list index out of range"],
                    val |-> None]
              ELSE Subscript(v[1], Tail(path))
         ELSE IF Head(path) \notin DOMAIN v
              THEN [exc |-> [type |-> "KeyError", arg |-> Head(path)], val |-> None]
              ELSE Subscript(v[Head(path)], Tail(path))

\* ---------------------------------------------------------------------
\* State
\* ---------------------------------------------------------------------
VARIABLES
    active,       \* the invocations in flight
    env,          \* os.environ of the deployment
    event,        \* event[i]: the event passed to invocation i
    collab,       \* collab[i]: how the collaborators answer invocation i
    pc,           \* pc[i]: position of invocation i in lambda_handler
    locals,       \* locals[i]: the local variables assigned so far
    exc,          \* exc[i]: the exception raised inside the try block
    branch,       \* branch[i]: the except clause that handled exc[i]
    outcome,      \* outcome[i]: what the caller of invocation i observes
    s3Calls,      \* copy_object requests received by S3, in order
    snsCalls      \* publish requests received by SNS, in order

vars == <<active, env, event, collab, pc, locals, exc, branch, outcome,
          s3Calls, snsCalls>>

\* The empty dict of local variables.
NoLocals == [k \in {} |-> None]

Pending == [kind |-> "pending"]

\* locals()-guarded read: the variable's value if it was assigned, else dflt.
Local(loc, name, dflt) == IF name \in DOMAIN loc THEN loc[name] ELSE dflt

\* ---------------------------------------------------------------------
\* The stages of lambda_handler, as functions of what they read
\* ---------------------------------------------------------------------
\* ValidateEnvironment without the check of line 53.
ValidateEnvironmentNoTopicCheck(e) ==
    LET bb == EnvGet(e, "BACKUP_BUCKET")
        ta == EnvGet(e, "SNS_TOPIC_ARN")
    IN  [locals |-> [backup_bucket |-> bb, sns_topic_arn |-> ta],
         exc |-> IF Falsy(bb)
                 THEN [type |-> "ValueError",
                       arg |-> "BACKUP_BUCKET environment variable not set"]
                 ELSE NoExc]

\* Lines 47-54: both variables are read first, then validated in order.
ValidateEnvironment(e) ==
    LET bb == EnvGet(e, "BACKUP_BUCKET")
        ta == EnvGet(e, "SNS_TOPIC_ARN")
    IN  [locals |-> [backup_bucket |-> bb, sns_topic_arn |-> ta],
         exc |-> IF Falsy(bb)
                 THEN [type |-> "ValueError",
                       arg |-> "BACKUP_BUCKET environment variable not set"]
                 ELSE IF Falsy(ta)
                 THEN [type |-> "ValueError",
                       arg |-> "SNS_TOPIC_ARN environment variable not set"]
                 ELSE NoExc]

\* Lines 61-64: the four assignments, in source order.
EventFields ==
    << <<"source_bucket", <<"Records", "[0]", "s3", "bucket", "name">> >>,
       <<"object_key",    <<"Records", "[0]", "s3", "object", "key">> >>,
       <<"file_size",     <<"Records", "[0]", "s3", "object", "size">> >>,
       <<"event_time",    <<"Records", "[0]", "eventTime">> >> >>

\* Lines 61-64: run the assignments from the n-th on; the first subscript
\* that raises ends the block and leaves the later variables unassigned.
RECURSIVE ExtractFrom(_, _, _)
ExtractFrom(ev, loc, n) ==
    IF n > Len(EventFields) THEN [locals |-> loc, exc |-> NoExc]
    ELSE LET r == Subscript(ev, EventFields[n][2])
         IN  IF r.exc # NoExc THEN [locals |-> loc, exc |-> r.exc]
             ELSE ExtractFrom(ev, (EventFields[n][1] :> r.val) @@ loc, n + 1)

\* ExtractFileInformation without the read of eventTime at line 64.
ExtractWithoutEventTime(ev, loc) ==
    LET r == ExtractFrom(ev, loc, 1)
    IN  IF r.exc # NoExc /\ DOMAIN r.locals = DOMAIN loc \cup {"source_bucket", "object_key", "file_size"}
        THEN [locals |-> r.locals, exc |-> NoExc]
        ELSE r

ExtractFileInformation(ev, loc) == ExtractFrom(ev, loc, 1)

\* CopyRequest with the source bucket used as the destination key.
CopyRequestWrongKey(loc) ==
    [CopySource |-> [Bucket |-> loc["source_bucket"], Key |-> loc["object_key"]],
     Bucket |-> loc["backup_bucket"],
     Key |-> loc["source_bucket"],
     ServerSideEncryption |-> "AES256"]

\* CopyRequest asking for another server-side encryption.
CopyRequestOtherEncryption(loc) ==
    [CopySource |-> [Bucket |-> loc["source_bucket"], Key |-> loc["object_key"]],
     Bucket |-> loc["backup_bucket"],
     Key |-> loc["object_key"],
     ServerSideEncryption |-> "aws:kms"]

\* Lines 77-87: the copy_object request.
CopyRequest(loc) ==
    [CopySource |-> [Bucket |-> loc["source_bucket"], Key |-> loc["object_key"]],
     Bucket |-> loc["backup_bucket"],
     Key |-> loc["object_key"],
     ServerSideEncryption |-> "AES256"]

\* Lines 189-240: the fields the success message shows.
format_success_message(object_key, file_size, source_bucket, backup_bucket) ==
    [text |-> "BACKUP OPERATION SUCCESSFUL",
     object_key |-> object_key,
     file_size |-> file_size,
     source_bucket |-> source_bucket,
     backup_bucket |-> backup_bucket,
     encryption |-> "AES256 (Server-side)"]

\* Lines 243-297: the fields the detailed failure message shows.
format_failure_message(error_msg, error_type, object_key, source_bucket, backup_bucket) ==
    [text |-> "BACKUP OPERATION FAILED - ACTION REQUIRED",
     error_type |-> error_type,
     error_msg |-> error_msg,
     object_key |-> object_key,
     source_bucket |-> source_bucket,
     backup_bucket |-> backup_bucket]

\* Lines 100-104: the success publish request.
SuccessPublishRequest(loc) ==
    [TopicArn |-> loc["sns_topic_arn"],
     Subject |-> "AWS Backup Success - File Replicated",
     Message |-> format_success_message(loc["object_key"], loc["file_size"],
                                        loc["source_bucket"], loc["backup_bucket"])]

\* SuccessResponse with the destination built from the source bucket.
SuccessResponseWrongDestination(loc) ==
    [kind |-> "returned",
     statusCode |-> 200,
     body |-> [message |-> "Backup completed successfully",
               source |-> loc["source_bucket"] \o "/" \o loc["object_key"],
               destination |-> loc["source_bucket"] \o "/" \o loc["object_key"],
               size_bytes |-> loc["file_size"]]]

\* Lines 114-123: the value returned on success (body is the dict that is
\* serialised with json.dumps).
SuccessResponse(loc) ==
    [kind |-> "returned",
     statusCode |-> 200,
     body |-> [message |-> "Backup completed successfully",
               source |-> loc["source_bucket"] \o "/" \o loc["object_key"],
               destination |-> loc["backup_bucket"] \o "/" \o loc["object_key"],
               size_bytes |-> loc["file_size"]]]

\* A collaborator call as it is recorded: the request, who made it and how
\* it ended ("ok" or the type of the exception raised).
Call(i, req, result) == [inv |-> i, req |-> req, result |-> result]

\* The exception a collaborator raises for behaviour beh at call site op.
CollabExc(beh, op) == [type |-> beh, arg |-> op \o " failed"]

\* send_failure_notification without the try/except of lines 317 and 333:
\* a publish error leaves the function.
send_failure_notification_uncaught(i, sns_topic_arn, error_msg, error_category, beh) ==
    IF Falsy(sns_topic_arn)
    THEN [calls |-> <<>>, exc |-> NoExc]
    ELSE [calls |-> << Call(i, [TopicArn |-> sns_topic_arn,
                                Subject |-> "AWS Backup System Error - " \o error_category,
                                Message |-> [text |-> "BACKUP SYSTEM ERROR",
                                             category |-> error_category,
                                             error_msg |-> error_msg]],
                            beh) >>,
          exc |-> IF beh = "ok" THEN NoExc ELSE CollabExc(beh, "failure publish")]

\* send_failure_notification without the guard of lines 313-315.
send_failure_notification_unguarded(i, sns_topic_arn, error_msg, error_category, beh) ==
    [calls |-> << Call(i, [TopicArn |-> sns_topic_arn,
                           Subject |-> "AWS Backup System Error - " \o error_category,
                           Message |-> [text |-> "BACKUP SYSTEM ERROR",
                                        category |-> error_category,
                                        error_msg |-> error_msg]],
                       beh) >>,
     exc |-> NoExc]

\* Lines 300-334: send_failure_notification.  Yields the publish calls made
\* (none or one) and the exception that leaves the function (never one: a
\* publish error is caught at line 333).
send_failure_notification(i, sns_topic_arn, error_msg, error_category, beh) ==
    IF Falsy(sns_topic_arn)
    THEN [calls |-> <<>>, exc |-> NoExc]
    ELSE [calls |-> << Call(i, [TopicArn |-> sns_topic_arn,
                                Subject |-> "AWS Backup System Error - " \o error_category,
                                Message |-> [text |-> "BACKUP SYSTEM ERROR",
                                             category |-> error_category,
                                             error_msg |-> error_msg]],
                            beh) >>,
          exc |-> NoExc]

\* Lines 127-135: the notification of the KeyError clause.
KeyErrorNotification(i, loc, e, beh) ==
    send_failure_notification(
        i, Local(loc, "sns_topic_arn", None),
        "Invalid event structure - missing required field: " \o Str(e),
        "Invalid Event Data", beh)

\* Lines 141-148: the notification of the ValueError clause.
ValueErrorNotification(i, loc, e, beh) ==
    send_failure_notification(
        i, Local(loc, "sns_topic_arn", None),
        "Configuration error: " \o Str(e),
        "Configuration Error", beh)

\* GenericFailureNotification with the object key and the source bucket
\* passed to format_failure_message in each other's place.
GenericFailureNotificationTransposed(i, loc, e, beh) ==
    LET error_msg == "Backup operation failed: " \o Str(e)
        failure_message ==
            format_failure_message(error_msg, e.type,
                                   Local(loc, "source_bucket", "Unknown"),
                                   Local(loc, "object_key", "Unknown"),
                                   Local(loc, "backup_bucket", "Not configured"))
    IN  IF "sns_topic_arn" \in DOMAIN loc /\ ~Falsy(loc["sns_topic_arn"])
        THEN [calls |-> << Call(i, [TopicArn |-> loc["sns_topic_arn"],
                                    Subject |-> "AWS Backup FAILURE - Action Required",
                                    Message |-> failure_message],
                                beh) >>,
              exc |-> NoExc]
        ELSE [calls |-> <<>>, exc |-> NoExc]

\* Lines 160-179: the detailed failure notification of the generic branch.
\* Yields the publish calls made and the exception that escapes (none: a
\* publish error is caught at line 178).
GenericFailureNotification(i, loc, e, beh) ==
    LET error_msg == "Backup operation failed: " \o Str(e)
        failure_message ==
            format_failure_message(error_msg, e.type,
                                   Local(loc, "object_key", "Unknown"),
                                   Local(loc, "source_bucket", "Unknown"),
                                   Local(loc, "backup_bucket", "Not configured"))
    IN  IF "sns_topic_arn" \in DOMAIN loc /\ ~Falsy(loc["sns_topic_arn"])
        THEN [calls |-> << Call(i, [TopicArn |-> loc["sns_topic_arn"],
                                    Subject |-> "AWS Backup FAILURE - Action Required",
                                    Message |-> failure_message],
                                beh) >>,
              exc |-> NoExc]
        ELSE [calls |-> <<>>, exc |-> NoExc]

\* The except clause that handles e: the first one, in source order
\* (lines 125, 139, 152), whose class e is an instance of.
ExceptClause(e) ==
    IF IsInstance(e, "KeyError") THEN "KeyError"
    ELSE IF IsInstance(e, "ValueError") THEN "ValueError"
    ELSE "Exception"

\* An except clause without its final raise: the handler returns normally.
ReraiseOmitted(handled, escaped) ==
    IF escaped # NoExc THEN [kind |-> "raised", exc |-> escaped]
    ELSE [kind |-> "returned", statusCode |-> 0, body |-> None]

\* What propagates out of an except clause that ends with a bare raise:
\* an exception escaping from the clause's body replaces the handled one.
Reraise(handled, escaped) ==
    [kind |-> "raised", exc |-> IF escaped # NoExc THEN escaped ELSE handled]

\* Lines 125-186: the except clauses, for exception e raised with the
\* local variables loc after the calls s3 and sns were made.
HandlerFailure(i, loc, e, beh, s3, sns) ==
    LET clause == ExceptClause(e)
        n == IF clause = "KeyError" THEN KeyErrorNotification(i, loc, e, beh.failure)
             ELSE IF clause = "ValueError" THEN ValueErrorNotification(i, loc, e, beh.failure)
             ELSE GenericFailureNotification(i, loc, e, beh.failure)
    IN  [outcome |-> Reraise(e, n.exc), s3 |-> s3, sns |-> sns \o n.calls]

\* Lines 20-186: lambda_handler run from start to end on its own, for
\* environment e, event ev and collaborator answers beh: the caller-visible
\* outcome and the calls made.
lambda_handler(i, e, ev, beh) ==
    LET cfg == ValidateEnvironment(e)
        parsed == ExtractFileInformation(ev, cfg.locals)
        loc == parsed.locals
        s3 == << Call(i, CopyRequest(loc), beh.copy) >>
        sns == << Call(i, SuccessPublishRequest(loc),
                       IF beh.publish = "NoMessageId" THEN "ok" ELSE beh.publish) >>
    IN  IF cfg.exc # NoExc
        THEN HandlerFailure(i, cfg.locals, cfg.exc, beh, <<>>, <<>>)
        ELSE IF parsed.exc # NoExc
        THEN HandlerFailure(i, loc, parsed.exc, beh, <<>>, <<>>)
        ELSE IF beh.copy # "ok"
        THEN HandlerFailure(i, loc, CollabExc(beh.copy, "copy_object"), beh, s3, <<>>)
        ELSE IF beh.publish = "NoMessageId"
        THEN HandlerFailure(i, loc, [type |-> "KeyError", arg |-> "MessageId"], beh, s3, sns)
        ELSE IF beh.publish # "ok"
        THEN HandlerFailure(i, loc, CollabExc(beh.publish, "publish"), beh, s3, sns)
        ELSE [outcome |-> SuccessResponse(loc), s3 |-> s3, sns |-> sns]

\* ---------------------------------------------------------------------
\* Initial states
\* ---------------------------------------------------------------------
\* The invocations in A are about to enter the try block of lambda_handler;
\* the environment, the events and the collaborators' answers are drawn
\* from the given sets.
Start(A, BBs, TAs, Shapes, Sources, SizeSet, Copies, Publishes, FailurePublishes) ==
    /\ active = A
    /\ \E bb \in BBs, ta \in TAs : env = MkEnv(bb, ta)
    /\ \E sh \in [A -> Shapes], src \in [A -> Sources],
          n \in [A -> SizeSet], t \in [A -> EventTimes] :
          event = [i \in A |-> MkEvent(sh[i], src[i][1], src[i][2], n[i], t[i])]
    /\ collab \in [A -> [copy : Copies, publish : Publishes, failure : FailurePublishes]]
    /\ pc = [i \in A |-> "start"]
    /\ locals = [i \in A |-> NoLocals]
    /\ exc = [i \in A |-> NoExc]
    /\ branch = [i \in A |-> "none"]
    /\ outcome = [i \in A |-> Pending]
    /\ s3Calls = <<>>
    /\ snsCalls = <<>>

\* One invocation, every configuration, event shape and collaborator answer.
Init ==
    Start({1}, BackupBucketValues, TopicArnValues, EventShapes,
          SourceBuckets \X ObjectKeys, Sizes,
          CopyBehaviours, PublishBehaviours, FailurePublishBehaviours)

\* The objects the concurrent invocations are triggered for: two keys of one
\* bucket, and one of these keys in a second bucket.
ConcurrentSources == {<<"src", "a.txt">>, <<"src", "b.txt">>, <<"src2", "a.txt">>}

\* MaxInvocations concurrent invocations of one complete deployment, each
\* with a well-formed event.
InitConcurrent ==
    Start(1..MaxInvocations, {"dst"}, {"topic1"}, {"full"}, ConcurrentSources, {2048},
          CopyBehaviours, {"ok"}, {"ok"})

\* The same handler run twice, as runs 1 and 2, with one environment, the
\* same event and the same collaborator answers both times.
InitRepeat ==
    /\ active = {1, 2}
    /\ \E bb \in BackupBucketValues, ta \in TopicArnValues : env = MkEnv(bb, ta)
    /\ \E sh \in EventShapes, src \in SourceBuckets \X ObjectKeys,
          n \in Sizes, t \in EventTimes :
          event = [i \in {1, 2} |-> MkEvent(sh, src[1], src[2], n, t)]
    /\ \E c \in [copy : CopyBehaviours, publish : PublishBehaviours,
                 failure : FailurePublishBehaviours] :
          collab = [i \in {1, 2} |-> c]
    /\ pc = [i \in {1, 2} |-> "start"]
    /\ locals = [i \in {1, 2} |-> NoLocals]
    /\ exc = [i \in {1, 2} |-> NoExc]
    /\ branch = [i \in {1, 2} |-> "none"]
    /\ outcome = [i \in {1, 2} |-> Pending]
    /\ s3Calls = <<>>
    /\ snsCalls = <<>>

\* ---------------------------------------------------------------------
\* Steps of one invocation
\* ---------------------------------------------------------------------
\* The try block left by exception e after assigning loc.
Raise(i, loc, e) ==
    /\ locals' = [locals EXCEPT ![i] = loc]
    /\ exc' = [exc EXCEPT ![i] = e]
    /\ pc' = [pc EXCEPT ![i] = "except"]

\* Lines 46-58.
ConfigStep(i) ==
    /\ pc[i] = "start"
    /\ LET r == ValidateEnvironment(env)
       IN  IF r.exc # NoExc
           THEN Raise(i, r.locals, r.exc)
           ELSE /\ locals' = [locals EXCEPT ![i] = r.locals]
                /\ pc' = [pc EXCEPT ![i] = "parse"]
                /\ exc' = exc
    /\ UNCHANGED <<active, env, event, collab, branch, outcome, s3Calls, snsCalls>>

\* Lines 60-80.
ParseStep(i) ==
    /\ pc[i] = "parse"
    /\ LET r == ExtractFileInformation(event[i], locals[i])
       IN  IF r.exc # NoExc
           THEN Raise(i, r.locals, r.exc)
           ELSE /\ locals' = [locals EXCEPT ![i] = r.locals]
                /\ pc' = [pc EXCEPT ![i] = "copy"]
                /\ exc' = exc
    /\ UNCHANGED <<active, env, event, collab, branch, outcome, s3Calls, snsCalls>>

\* CopyStep of a handler that remembers, at module level, the destinations
\* it has copied to and refuses to copy to one of them again.
CopyStepRefusingRepeat(i) ==
    /\ pc[i] = "copy"
    /\ IF \E n \in DOMAIN s3Calls :
             /\ s3Calls[n].result = "ok"
             /\ s3Calls[n].req.Bucket = CopyRequest(locals[i]).Bucket
             /\ s3Calls[n].req.Key = CopyRequest(locals[i]).Key
       THEN /\ Raise(i, locals[i], [type |-> "ValueError", arg |-> "already backed up"])
            /\ s3Calls' = s3Calls
       ELSE /\ s3Calls' = Append(s3Calls, Call(i, CopyRequest(locals[i]), collab[i].copy))
            /\ IF collab[i].copy # "ok"
               THEN Raise(i, locals[i], CollabExc(collab[i].copy, "copy_object"))
               ELSE /\ pc' = [pc EXCEPT ![i] = "publish"]
                    /\ UNCHANGED <<locals, exc>>
    /\ UNCHANGED <<active, env, event, collab, branch, outcome, snsCalls>>

\* CopyStep that calls copy_object a second time when the first call fails.
CopyStepRetrying(i) ==
    /\ pc[i] = "copy"
    /\ s3Calls' = Append(s3Calls, Call(i, CopyRequest(locals[i]), collab[i].copy))
    /\ IF collab[i].copy # "ok"
       THEN IF \E n \in DOMAIN s3Calls : s3Calls[n].inv = i
            THEN Raise(i, locals[i], CollabExc(collab[i].copy, "copy_object"))
            ELSE UNCHANGED <<pc, locals, exc>>
       ELSE /\ pc' = [pc EXCEPT ![i] = "publish"]
            /\ UNCHANGED <<locals, exc>>
    /\ UNCHANGED <<active, env, event, collab, branch, outcome, snsCalls>>

\* Lines 82-96: the copy_object call and what follows its return.
CopyStep(i) ==
    /\ pc[i] = "copy"
    /\ s3Calls' = Append(s3Calls, Call(i, CopyRequest(locals[i]), collab[i].copy))
    /\ IF collab[i].copy # "ok"
       THEN Raise(i, locals[i], CollabExc(collab[i].copy, "copy_object"))
       ELSE /\ pc' = [pc EXCEPT ![i] = "publish"]
            /\ UNCHANGED <<locals, exc>>
    /\ UNCHANGED <<active, env, event, collab, branch, outcome, snsCalls>>

\* PublishStep that only logs a failure of the success publish and returns
\* the success response all the same.
PublishStepDecoupled(i) ==
    /\ pc[i] = "publish"
    /\ snsCalls' = Append(snsCalls,
                          Call(i, SuccessPublishRequest(locals[i]),
                               IF collab[i].publish \in {"ok", "NoMessageId"}
                               THEN "ok" ELSE collab[i].publish))
    /\ outcome' = [outcome EXCEPT ![i] = SuccessResponse(locals[i])]
    /\ pc' = [pc EXCEPT ![i] = "done"]
    /\ UNCHANGED <<active, env, event, collab, locals, exc, branch, s3Calls>>

\* Lines 98-123: the success publish, the read of the message id and the
\* return.
PublishStep(i) ==
    /\ pc[i] = "publish"
    /\ LET beh == collab[i].publish
           answered == beh \in {"ok", "NoMessageId"}
       IN  /\ snsCalls' = Append(snsCalls,
                                 Call(i, SuccessPublishRequest(locals[i]),
                                      IF answered THEN "ok" ELSE beh))
           /\ IF beh = "ok"
              THEN /\ outcome' = [outcome EXCEPT ![i] = SuccessResponse(locals[i])]
                   /\ pc' = [pc EXCEPT ![i] = "done"]
                   /\ UNCHANGED <<locals, exc>>
              ELSE /\ Raise(i, locals[i],
                            IF beh = "NoMessageId"
                            THEN [type |-> "KeyError", arg |-> "MessageId"]
                            ELSE CollabExc(beh, "publish"))
                   /\ outcome' = outcome
    /\ UNCHANGED <<active, env, event, collab, branch, s3Calls>>

\* An except clause: record it, send its notification, re-raise.
Handle(i, clause, notification) ==
    /\ branch' = [branch EXCEPT ![i] = clause]
    /\ snsCalls' = snsCalls \o notification.calls
    /\ outcome' = [outcome EXCEPT ![i] = Reraise(exc[i], notification.exc)]
    /\ pc' = [pc EXCEPT ![i] = "done"]
    /\ UNCHANGED <<active, env, event, collab, locals, exc, s3Calls>>

\* Lines 125-137.
ExceptKeyError(i) ==
    /\ pc[i] = "except"
    /\ ExceptClause(exc[i]) = "KeyError"
    /\ Handle(i, "KeyError",
              KeyErrorNotification(i, locals[i], exc[i], collab[i].failure))

\* Lines 139-150.
ExceptValueError(i) ==
    /\ pc[i] = "except"
    /\ ExceptClause(exc[i]) = "ValueError"
    /\ Handle(i, "ValueError",
              ValueErrorNotification(i, locals[i], exc[i], collab[i].failure))

\* Lines 152-186.
ExceptException(i) ==
    /\ pc[i] = "except"
    /\ ExceptClause(exc[i]) = "Exception"
    /\ Handle(i, "Exception",
              GenericFailureNotification(i, locals[i], exc[i], collab[i].failure))

Next ==
    \E i \in active :
        \/ ConfigStep(i)
        \/ ParseStep(i)
        \/ CopyStep(i)
        \/ PublishStep(i)
        \/ ExceptKeyError(i)
        \/ ExceptValueError(i)
        \/ ExceptException(i)

Spec == Init /\ [][Next]_vars

SpecConcurrent == InitConcurrent /\ [][Next]_vars

\* Runs happen one after the other: a run moves only when the runs before
\* it have ended.
Sequential ==
    \A i \in active :
        pc'[i] # pc[i] => \A j \in active : j < i => pc[j] = "done"

SpecRepeat == InitRepeat /\ [][Next /\ Sequential]_vars

\* ---------------------------------------------------------------------
\* Observations used by the properties
\* ---------------------------------------------------------------------
Done(i) == pc[i] = "done"

Returned(i) == outcome[i].kind = "returned"

Raised(i) == outcome[i].kind = "raised"

\* Both environment variables are set and non-empty.
ConfigComplete ==
    /\ ~Falsy(EnvGet(env, "BACKUP_BUCKET"))
    /\ ~Falsy(EnvGet(env, "SNS_TOPIC_ARN"))

\* All four paths of the event can be read.
EventValid(i) ==
    \A n \in DOMAIN EventFields : Subscript(event[i], EventFields[n][2]).exc = NoExc

\* The copy_object calls of invocation i.
CopyCalls(i) == SelectSeq(s3Calls, LAMBDA c : c.inv = i)

CopySucceeded(i) == \E n \in DOMAIN s3Calls : s3Calls[n].inv = i /\ s3Calls[n].result = "ok"

SuccessSubject == "AWS Backup Success - File Replicated"

\* The success publish calls of invocation i.
SuccessNotifications(i) ==
    SelectSeq(snsCalls, LAMBDA c : c.inv = i /\ c.req.Subject = SuccessSubject)

\* The failure publish calls of invocation i, of either kind.
FailureNotifications(i) ==
    SelectSeq(snsCalls, LAMBDA c : c.inv = i /\ c.req.Subject # SuccessSubject)

\* ---------------------------------------------------------------------
\* Properties
\* ---------------------------------------------------------------------

\* C1: with a valid event and complete configuration, the handler returns
\* Success if and only if copy_object succeeded, also when the success
\* publish throws after the copy.
C1_SuccessIffCopySucceeded ==
    \A i \in active :
        (Done(i) /\ ConfigComplete /\ EventValid(i))
            => (Returned(i) <=> CopySucceeded(i))

\* C2: with complete configuration, an event from which one of the four
\* paths cannot be read is handled by the 'Invalid Event Data' clause, a
\* KeyError propagates, and copy_object is never called.
C2_UnreadableEventIsMalformed ==
    \A i \in active :
        (ConfigComplete /\ ~EventValid(i))
            => /\ CopyCalls(i) = <<>>
               /\ Done(i) => /\ branch[i] = "KeyError"
                             /\ Raised(i)
                             /\ outcome[i].exc.type = "KeyError"

\* C3: when BACKUP_BUCKET or SNS_TOPIC_ARN is empty or absent, copy_object
\* is never called and the invocation ends in the 'Configuration Error'
\* clause with the ValueError propagated to the caller.
C3_IncompleteConfigIsConfigurationError ==
    \A i \in active :
        ~ConfigComplete
            => /\ CopyCalls(i) = <<>>
               /\ pc[i] \notin {"parse", "copy", "publish"}
               /\ Done(i) => /\ branch[i] = "ValueError"
                             /\ Raised(i)
                             /\ outcome[i].exc.type = "ValueError"
                             /\ outcome[i].exc.arg \in
                                   {"BACKUP_BUCKET environment variable not set",
                                    "SNS_TOPIC_ARN environment variable not set"}

\* C3 witness: an invocation with the topic unset and the bucket set has
\* ended in the ValueError clause.
C3_Witness ==
    \E i \in active :
        /\ Done(i)
        /\ ~Falsy(EnvGet(env, "BACKUP_BUCKET"))
        /\ Falsy(EnvGet(env, "SNS_TOPIC_ARN"))
        /\ branch[i] = "ValueError"
        /\ EventValid(i)

\* An exception was raised by the copy_object call or by the success publish
\* call of invocation i.
RaisedByCopyOrPublish(i) ==
    \/ \E n \in DOMAIN s3Calls : s3Calls[n].inv = i /\ s3Calls[n].result # "ok"
    \/ \E n \in DOMAIN snsCalls :
          /\ snsCalls[n].inv = i
          /\ snsCalls[n].req.Subject = SuccessSubject
          /\ snsCalls[n].result # "ok"

\* C4: an exception raised by copy_object or by the success publish is
\* handled by the generic clause, whatever its type, and the failure
\* notification carries its type name and message.
C4_CollaboratorErrorIsStorageOperationError ==
    \A i \in active :
        (Done(i) /\ RaisedByCopyOrPublish(i))
            => /\ branch[i] = "Exception"
               /\ Len(FailureNotifications(i)) = 1
               /\ FailureNotifications(i)[1].req.Subject =
                      "AWS Backup FAILURE - Action Required"
               /\ FailureNotifications(i)[1].req.Message.error_type = exc[i].type
               /\ FailureNotifications(i)[1].req.Message.error_msg =
                      "Backup operation failed: " \o Str(exc[i])

\* The failure publish call of invocation i raised.
FailurePublishThrew(i) ==
    \E n \in DOMAIN snsCalls :
        /\ snsCalls[n].inv = i
        /\ snsCalls[n].req.Subject # SuccessSubject
        /\ snsCalls[n].result # "ok"

\* C5: when the failure publish itself throws, in any of the three except
\* clauses, the exception that propagates is the one raised in the try
\* block, not the one of the publish.
C5_FailurePublishErrorNeverMasks ==
    \A i \in active :
        (Done(i) /\ FailurePublishThrew(i))
            => /\ branch[i] \in {"KeyError", "ValueError", "Exception"}
               /\ Raised(i)
               /\ outcome[i].exc = exc[i]
               /\ outcome[i].exc # CollabExc(collab[i].failure, "failure publish")

\* C5 witness: the 'Invalid Event Data' notification threw and the
\* KeyError propagated.
C5_Witness ==
    \E i \in active :
        /\ Done(i)
        /\ FailurePublishThrew(i)
        /\ branch[i] = "KeyError"
        /\ outcome[i].exc.type = "KeyError"

\* C6: a failing invocation attempts exactly one failure publish when
\* SNS_TOPIC_ARN is set and non-empty and none otherwise; no invocation
\* ever attempts a second one.
C6_ExactlyOneFailureNotification ==
    \A i \in active :
        /\ Len(FailureNotifications(i)) <= 1
        /\ (Done(i) /\ Raised(i))
               => Len(FailureNotifications(i)) =
                      IF Falsy(EnvGet(env, "SNS_TOPIC_ARN")) THEN 0 ELSE 1

\* C6 witness: a configuration failure (bucket unset, topic set) whose one
\* failure publish threw.
C6_Witness ==
    \E i \in active :
        /\ Done(i)
        /\ Raised(i)
        /\ Falsy(EnvGet(env, "BACKUP_BUCKET"))
        /\ ~Falsy(EnvGet(env, "SNS_TOPIC_ARN"))
        /\ FailurePublishThrew(i)
        /\ Len(FailureNotifications(i)) = 1

\* Invocation i can take a step.
CanStep(i) ==
    ENABLED (\/ ConfigStep(i) \/ ParseStep(i) \/ CopyStep(i) \/ PublishStep(i)
             \/ ExceptKeyError(i) \/ ExceptValueError(i) \/ ExceptException(i))

\* C7: an invocation ends either with the returned success payload
\* (statusCode 200, no exception was raised) or with a propagated
\* exception; once an exception was raised inside the try block the
\* invocation never returns normally, and it is never stuck before its end.
C7_ReturnsSuccessOrRaises ==
    \A i \in active :
        /\ Done(i) <=> (Returned(i) \/ Raised(i))
        /\ ~Done(i) => (outcome[i] = Pending /\ CanStep(i))
        /\ Done(i) => ~CanStep(i)
        /\ Returned(i) => /\ outcome[i].statusCode = 200
                          /\ exc[i] = NoExc
                          /\ branch[i] = "none"
        /\ (Done(i) /\ exc[i] # NoExc) => (Raised(i) /\ branch[i] # "none")

\* C7 witness: an invocation whose copy succeeded and whose success publish
\* threw has ended by propagating the exception.
C7_Witness ==
    \E i \in active :
        /\ Done(i)
        /\ CopySucceeded(i)
        /\ Raised(i)
        /\ FailurePublishThrew(i)

\* The value of the n-th event field if it was assigned before the failure
\* (it and the fields before it can be read), else the sentinel.
ResolvedOr(i, n, sentinel) ==
    IF \A m \in 1..n : Subscript(event[i], EventFields[m][2]).exc = NoExc
    THEN Subscript(event[i], EventFields[n][2]).val
    ELSE sentinel

\* The event of invocation i lacks Records[0].s3.object.key only.
MissingObjectKey(i) ==
    /\ Subscript(event[i], EventFields[1][2]).exc = NoExc
    /\ Subscript(event[i], EventFields[2][2]).exc = [type |-> "KeyError", arg |-> "key"]

\* C8 as claimed: every published failure notification, of every failure
\* kind, has object-key, source-bucket and backup-bucket fields holding the
\* resolved value or the sentinel.
C8_EveryFailureNotificationCarriesContext ==
    \A n \in DOMAIN snsCalls :
        LET c == snsCalls[n]
            M == c.req.Message
        IN  c.req.Subject # SuccessSubject
                => /\ {"object_key", "source_bucket", "backup_bucket"} \subseteq DOMAIN M
                   /\ M.object_key = ResolvedOr(c.inv, 2, "Unknown")
                   /\ M.source_bucket = ResolvedOr(c.inv, 1, "Unknown")
                   /\ M.backup_bucket = Local(locals[c.inv], "backup_bucket", "Not configured")

\* C8 amended: the notification of the generic clause carries the three
\* fields, each the resolved value or its sentinel; the notifications of
\* the KeyError and ValueError clauses carry only category and error
\* message, and for an event missing the object key the error message
\* names 'key'.
C8_GenericFailureNotificationCarriesContext ==
    \A n \in DOMAIN snsCalls :
        LET c == snsCalls[n]
            M == c.req.Message
        IN  /\ c.req.Subject = "AWS Backup FAILURE - Action Required"
                => /\ M.object_key = ResolvedOr(c.inv, 2, "Unknown")
                   /\ M.source_bucket = ResolvedOr(c.inv, 1, "Unknown")
                   /\ M.backup_bucket = Local(locals[c.inv], "backup_bucket", "Not configured")
                   /\ M.backup_bucket = EnvGet(env, "BACKUP_BUCKET")
            /\ c.req.Subject \notin {SuccessSubject, "AWS Backup FAILURE - Action Required"}
                => /\ DOMAIN M = {"text", "category", "error_msg"}
                   /\ c.req.Subject = "AWS Backup System Error - " \o M.category
                   /\ M.category \in {"Invalid Event Data", "Configuration Error"}
                   /\ (ConfigComplete /\ MissingObjectKey(c.inv))
                         => /\ M.category = "Invalid Event Data"
                            /\ M.error_msg =
                                 "Invalid event structure - missing required field: 'key'"

\* C8 witness: a generic failure notification was published with the
\* sentinel for the object key and with the configured backup bucket.
C8_Witness ==
    \E n \in DOMAIN snsCalls :
        /\ snsCalls[n].req.Subject = "AWS Backup FAILURE - Action Required"
        /\ snsCalls[n].req.Message.object_key = "Unknown"
        /\ snsCalls[n].req.Message.backup_bucket = "dst"

\* The (sourceBucket, objectKey) pair named in the event of invocation i.
SourcePair(i) ==
    << Subscript(event[i], EventFields[1][2]).val,
       Subscript(event[i], EventFields[2][2]).val >>

\* Invocation i reads only the source pair of its own event.
ReadsOwnSource(i) ==
    \A n \in DOMAIN s3Calls :
        s3Calls[n].inv = i
            => << s3Calls[n].req.CopySource.Bucket, s3Calls[n].req.CopySource.Key >>
                   = SourcePair(i)

\* A destination that both i and j wrote.
SharedDestination(i, j) ==
    \E n, m \in DOMAIN s3Calls :
        /\ s3Calls[n].inv = i /\ s3Calls[n].result = "ok"
        /\ s3Calls[m].inv = j /\ s3Calls[m].result = "ok"
        /\ s3Calls[n].req.Bucket = s3Calls[m].req.Bucket
        /\ s3Calls[n].req.Key = s3Calls[m].req.Key

\* The outcome and the calls of a finished invocation i are those of the
\* handler run on its own.
SameAsAlone(i) ==
    Done(i) =>
        LET alone == lambda_handler(i, env, event[i], collab[i])
        IN  /\ outcome[i] = alone.outcome
            /\ CopyCalls(i) = alone.s3
            /\ SelectSeq(snsCalls, LAMBDA c : c.inv = i) = alone.sns

\* C9 as claimed: concurrent invocations for distinct (sourceBucket,
\* objectKey) pairs read only their own source, never write the same
\* destination, and end as they would alone.
C9_DistinctSourcesAreIndependent ==
    \A i \in active :
        /\ ReadsOwnSource(i)
        /\ SameAsAlone(i)
        /\ \A j \in active \ {i} :
               SourcePair(i) # SourcePair(j) => ~SharedDestination(i, j)

\* C9 amended: the same, with the destinations kept apart by distinct
\* object keys (two source buckets holding the same key share the
\* destination backupBucket/objectKey).
C9_DistinctKeysAreIndependent ==
    \A i \in active :
        /\ ReadsOwnSource(i)
        /\ SameAsAlone(i)
        /\ \A j \in active \ {i} :
               SourcePair(i)[2] # SourcePair(j)[2] => ~SharedDestination(i, j)

\* C9 witness: two invocations for different keys of the same source
\* bucket have both copied and finished, one step of the one between two
\* steps of the other.
C9_Witness ==
    \E i, j \in active :
        /\ i # j
        /\ SourcePair(i)[1] = SourcePair(j)[1]
        /\ SourcePair(i)[2] # SourcePair(j)[2]
        /\ Done(i) /\ Done(j)
        /\ CopySucceeded(i) /\ CopySucceeded(j)
        /\ \E n, m \in DOMAIN snsCalls :
              /\ n < m
              /\ snsCalls[n].inv = i /\ snsCalls[m].inv = j
        /\ \E n, m \in DOMAIN s3Calls :
              /\ n < m
              /\ s3Calls[n].inv = j /\ s3Calls[m].inv = i

\* C10: a returned Success has statusCode 200 and a body whose destination
\* is backupBucket/objectKey, whose source is sourceBucket/objectKey and
\* whose size_bytes is the size given in the event.
C10_SuccessPayload ==
    \A i \in active :
        Returned(i)
            => /\ outcome[i].statusCode = 200
               /\ outcome[i].body.destination =
                      env["BACKUP_BUCKET"] \o "/" \o event[i].Records[1].s3.object.key
               /\ outcome[i].body.source =
                      event[i].Records[1].s3.bucket.name \o "/"
                          \o event[i].Records[1].s3.object.key
               /\ outcome[i].body.size_bytes = event[i].Records[1].s3.object.size

\* C10 witness: the scenario of the specification, size 2048 copied from
\* src/a.txt to dst/a.txt.
C10_Witness ==
    \E i \in active :
        /\ Returned(i)
        /\ outcome[i].body.destination = "dst/a.txt"
        /\ outcome[i].body.source = "src/a.txt"
        /\ outcome[i].body.size_bytes = 2048

\* The classification of the outcome of a finished run: Success, or the
\* failure kind of the except clause that handled the exception.
Classification(i) ==
    IF Returned(i) THEN "Success"
    ELSE IF branch[i] = "KeyError" THEN "MalformedEvent"
    ELSE IF branch[i] = "ValueError" THEN "ConfigurationError"
    ELSE "StorageOperationError"

\* C11: two runs of the handler with the same event, configuration and
\* collaborator answers end with the same classification, and with the
\* same caller-visible outcome: the first run leaves nothing that changes
\* the second.
C11_SameClassificationTwice ==
    \A i, j \in active :
        (Done(i) /\ Done(j) /\ event[i] = event[j] /\ collab[i] = collab[j])
            => /\ Classification(i) = Classification(j)
               /\ outcome[i] = outcome[j]

\* C11 witness: the second run has ended after the first one, both with a
\* successful copy.
C11_Witness ==
    /\ active = {1, 2}
    /\ Done(1) /\ Done(2)
    /\ event[1] = event[2] /\ collab[1] = collab[2]
    /\ Len(s3Calls) = 2
    /\ s3Calls[1].inv = 1 /\ s3Calls[1].result = "ok"
    /\ s3Calls[2].inv = 2 /\ s3Calls[2].result = "ok"
    /\ Classification(1) = "Success"

\* The stages of one invocation, in order: Start, ConfigValidated,
\* EventParsed, Copied, then the end of the try block (Failed or Done).
Rank(p) ==
    IF p = "start" THEN 0
    ELSE IF p = "parse" THEN 1
    ELSE IF p = "copy" THEN 2
    ELSE IF p = "publish" THEN 3
    ELSE IF p = "except" THEN 4
    ELSE 5

\* What one step of invocation i may do, given the order of the stages.
OrderedStep(i) ==
    /\ Rank(pc'[i]) >= Rank(pc[i])
    /\ CopyCalls(i)' # CopyCalls(i)
           => /\ pc[i] = "copy"
              /\ ConfigComplete
              /\ EventValid(i)
              /\ DOMAIN locals[i] = {"backup_bucket", "sns_topic_arn", "source_bucket",
                                     "object_key", "file_size", "event_time"}
              /\ SuccessNotifications(i) = <<>>
    /\ SuccessNotifications(i)' # SuccessNotifications(i)
           => /\ pc[i] = "publish"
              /\ CopySucceeded(i)
    /\ pc[i] \in {"except", "done"}
           => /\ CopyCalls(i)' = CopyCalls(i)
              /\ SuccessNotifications(i)' = SuccessNotifications(i)
              /\ locals'[i] = locals[i]
              /\ pc'[i] \in {"except", "done"}

\* C12: the stages follow one another in the order Start, ConfigValidated,
\* EventParsed, Copied, Notified, Done: copy_object is called only with
\* both configuration values validated and all four event fields read,
\* the success publish only after a successful copy, and after a failure
\* no earlier stage runs again.
C12_StagesInOrder == [][\A i \in active : OrderedStep(i)]_vars

\* C12 witness: an invocation went through every stage and returned.
C12_Witness ==
    \E i \in active :
        /\ Done(i)
        /\ Returned(i)
        /\ Len(CopyCalls(i)) = 1
        /\ Len(SuccessNotifications(i)) = 1

\* C13: an invocation calls copy_object at most once and makes each of
\* its publishes at most once, also after a copy failure, a success-publish
\* failure or a failure-publish failure: nothing is retried.
C13_NoRetry ==
    \A i \in active :
        /\ Len(CopyCalls(i)) <= 1
        /\ Len(SuccessNotifications(i)) <= 1
        /\ Len(FailureNotifications(i)) <= 1
        /\ Len(FailureNotifications(i)) = 1 => Done(i)
        /\ Len(SuccessNotifications(i)) = 1 => Len(CopyCalls(i)) = 1

\* C13 witness: an invocation has ended after its one copy_object call
\* failed and its one failure publish failed too.
C13_Witness ==
    \E i \in active :
        /\ Done(i)
        /\ Len(CopyCalls(i)) = 1
        /\ CopyCalls(i)[1].result # "ok"
        /\ FailurePublishThrew(i)
        /\ Len(FailureNotifications(i)) = 1

\* C14: every copy_object request copies from the bucket and key named in
\* the event of its invocation to the configured backup bucket under the
\* same key, and asks for AES256 server-side encryption.
C14_CopyRequestShape ==
    \A n \in DOMAIN s3Calls :
        LET c == s3Calls[n]
            ev == event[c.inv]
        IN  /\ c.req.CopySource.Bucket = ev.Records[1].s3.bucket.name
            /\ c.req.CopySource.Key = ev.Records[1].s3.object.key
            /\ c.req.Bucket = env["BACKUP_BUCKET"]
            /\ c.req.Key = c.req.CopySource.Key
            /\ c.req.ServerSideEncryption = "AES256"
            /\ DOMAIN c.req = {"CopySource", "Bucket", "Key", "ServerSideEncryption"}

\* C14 witness: a copy of src2/b.txt to dst/b.txt was requested.
C14_Witness ==
    \E n \in DOMAIN s3Calls :
        /\ s3Calls[n].req.CopySource = [Bucket |-> "src2", Key |-> "b.txt"]
        /\ s3Calls[n].req.Bucket = "dst"
        /\ s3Calls[n].req.Key = "b.txt"

\* C15: an invocation that returned Success made exactly one copy_object
\* call, which succeeded, exactly one success publish, which returned
\* without error, and no failure publish; an invocation that attempted a
\* failure publish has ended by propagating an exception.
C15_SuccessMeansOneCopyOneNotification ==
    \A i \in active :
        /\ Returned(i)
               => /\ Len(CopyCalls(i)) = 1
                  /\ CopyCalls(i)[1].result = "ok"
                  /\ Len(SuccessNotifications(i)) = 1
                  /\ SuccessNotifications(i)[1].result = "ok"
                  /\ collab[i].publish = "ok"
                  /\ FailureNotifications(i) = <<>>
        /\ FailureNotifications(i) # <<>> => Raised(i)

\* C15 witness: an invocation returned Success with a copy and a success
\* publish on record.
C15_Witness ==
    \E i \in active :
        /\ Returned(i)
        /\ CopySucceeded(i)
        /\ SuccessNotifications(i) # <<>>
        /\ outcome[i].statusCode = 200

\* C16: an invocation that published a failure notification did not copy
\* its object to the backup bucket.
C16_NoFailureNotificationAfterCopy ==
    \A i \in active :
        FailureNotifications(i) # <<>> => ~CopySucceeded(i)

====
